---- MODULE Spec2Model ----
(***************************************************************************)
(* Automatic clustering pipeline of the clustering platform (feature       *)
(* preprocessing, algorithm selection, clustering execution, metrics,      *)
(* projection and cluster analysis) and the components of its frontend.    *)
(*                                                                         *)
(* The specifications defined over the same module:                        *)
(*   SelSpec  - the Algorithm Selector applied to a row count n_samples    *)
(*              and an optional caller override (a pure function);         *)
(*   PreSpec  - the Feature Preprocessor applied to every dataset of up    *)
(*              to MaxRows records over the value sets of Rows;            *)
(*   Spec     - one clustering run (run_clustering) over the datasets      *)
(*              built from RunRows, stage by stage;                        *)
(*   ProjSpec - the Projection Builder applied to scaled matrices of up    *)
(*              to MaxFeatures columns;                                    *)
(*   AnaSpec  - analyze_clusters applied to a dataset, a LabelAssignment   *)
(*              and its MetricSet;                                         *)
(*   ViewSpec - a run under the default policy followed by the analysis    *)
(*              of its result;                                             *)
(*   ConcSpec - two runs advancing stage by stage in any interleaving;     *)
(*   DrawerSpec - ClusteringResults opening and closing the                *)
(*              ClusterDetailDrawer;                                       *)
(*   SummarySpec - the result summary rendered from cluster_labels;        *)
(*   DevSpec  - DeviceManager: selection, delete dialog, deleteMutation;   *)
(*   IngestSpec - DataIngestion: file list, clusteringMutation and the     *)
(*              results panel;                                             *)
(*   ResultsSpec - ClusteringResults: result selection, view mode and the  *)
(*              analysis query;                                            *)
(*   NotebookSpec - AdvancedMode: file selection and NotebookLauncher.     *)
(***************************************************************************)
EXTENDS Integers, Sequences, FiniteSets, TLC

VARIABLES
    n_samples,      \* SelSpec: FeatureMatrix row count handed to the selector
    sel_override,   \* SelSpec: caller override (NoOverride when absent)
    sel_outcome,    \* SelSpec: result of the selector (NotRun before the call)
    dataset,        \* Spec: the Dataset, a sequence of records
    override,       \* Spec: algorithm_override of run_clustering
    pc,             \* Spec: stage the run has reached
    matrix,         \* Spec: FeatureMatrix (NotRun before preprocessing)
    choice,         \* Spec: AlgorithmChoice (NotRun before selection)
    labels,         \* Spec: LabelAssignment produced by the executor
    metrics,        \* Spec: MetricSet (NotRun before the calculator ran)
    projection,     \* Spec: Projection (NotRun before the builder ran)
    result,         \* Spec: what run_clustering handed back to its caller
    error,          \* Spec: fatal error of the run ("none" when there is none)
    analysis,       \* Spec: output of analyze_clusters (NotRun before the call)
    runs,           \* ConcSpec: the state of every run, by run id
    selectedCluster, \* DrawerSpec: cluster shown in the detail drawer (Null when closed)
    detailRequests, \* DrawerSpec: detail requests issued, with the props they were issued under
    result_cluster_labels, \* SummarySpec: cluster_labels of the result being rendered
    summary,        \* SummarySpec: the rendered result summary (NotRun before rendering)
    selectedDevice, \* DevSpec: selectedDevice of AIMode ("null" when none)
    devices,        \* DevSpec: ids of the devices the server still has
    deleteConfirm,  \* DevSpec: deleteConfirm of DeviceManager (Null when the dialog is closed)
    deleteMutation, \* DevSpec: state of deleteMutation
    deleteRequests, \* DevSpec: deleteDevice requests sent, with the button that sent them
    files,          \* IngestSpec: processing_status of the listed files, by file id
    selectedFileId, \* IngestSpec: selectedFileId of DataIngestion ("null" when none)
    clusteringMutation, \* IngestSpec: state of clusteringMutation
    clusteringInFlight, \* IngestSpec: clustering requests sent and not yet answered
    clusteringRequests,\* IngestSpec: clustering requests sent, with the status shown for the file
    fileId,         \* ResultsSpec: fileId prop of ClusteringResults
    results,        \* ResultsSpec: the loaded clustering results of fileId, as result ids
    resultsLoading, \* ResultsSpec: isLoading of the clustering-results query
    viewMode,       \* ResultsSpec: viewMode of ClusteringResults
    selectedResultId, \* ResultsSpec: selectedResultId ("null" when none)
    analysisRequests,\* ResultsSpec: analysis queries made, with the result displayed at the time
    advSelectedFileId, \* NotebookSpec: selectedFileId of AdvancedMode ("null" when none)
    createMutation, \* NotebookSpec: state of createMutation of NotebookLauncher
    session,        \* NotebookSpec: data of the notebook-session query (Null when there is none)
    notebookRequests \* NotebookSpec: createNotebook requests sent

concvars == <<runs>>
drawervars == <<selectedCluster, detailRequests>>
summaryvars == <<result_cluster_labels, summary>>
devvars == <<selectedDevice, devices, deleteConfirm, deleteMutation, deleteRequests>>
ingestvars == <<files, selectedFileId, clusteringMutation, clusteringInFlight,
               clusteringRequests>>
resultsvars == <<fileId, results, resultsLoading, viewMode, selectedResultId,
                analysisRequests>>
notebookvars == <<advSelectedFileId, createMutation, session, notebookRequests>>
uivars == <<concvars, drawervars, summaryvars, devvars, ingestvars, resultsvars, notebookvars>>
nonconcvars == <<drawervars, summaryvars, devvars, ingestvars, resultsvars, notebookvars>>
nondrawervars == <<concvars, summaryvars, devvars, ingestvars, resultsvars, notebookvars>>
nonsummaryvars == <<concvars, drawervars, devvars, ingestvars, resultsvars, notebookvars>>
nondevvars == <<concvars, drawervars, summaryvars, ingestvars, resultsvars, notebookvars>>
noningestvars == <<concvars, drawervars, summaryvars, devvars, resultsvars, notebookvars>>
nonresultsvars == <<concvars, drawervars, summaryvars, devvars, ingestvars, notebookvars>>
nonnotebookvars == <<concvars, drawervars, summaryvars, devvars, ingestvars, resultsvars>>
selvars == <<n_samples, sel_override, sel_outcome>>
runvars == <<dataset, override, pc, matrix, choice, labels, metrics,
             projection, result, error, analysis>>
vars == <<n_samples, sel_override, sel_outcome, dataset, override, pc, matrix,
          choice, labels, metrics, projection, result, error, analysis,
          uivars>>

----------------------------------------------------------------------------
(* Bounds of the model *)

MaxSamples == 520   \* largest row count given to the selector in SelSpec
MaxRows == 3        \* largest Dataset (in rows) in Spec and PreSpec

----------------------------------------------------------------------------
(* Small helpers *)

Max(a, b) == IF a >= b THEN a ELSE b
Min(a, b) == IF a <= b THEN a ELSE b

NoOverride == [algorithm |-> "none"]
NotRun == [status |-> "not_run"]

ConcIdle == runs = <<>>

Null == [is_null |-> TRUE]

DrawerIdle ==
    /\ selectedCluster = Null
    /\ detailRequests = {}

SummaryIdle ==
    /\ result_cluster_labels = <<>>
    /\ summary = NotRun

DeviceIds == {"d1", "d2"}

DevIdle ==
    /\ selectedDevice = "null"
    /\ devices = DeviceIds
    /\ deleteConfirm = Null
    /\ deleteMutation = [status |-> "idle"]
    /\ deleteRequests = {}

FileIds == {"f1", "f2"}

IngestIdle ==
    /\ files = [f \in FileIds |-> "PENDING"]
    /\ selectedFileId = "null"
    /\ clusteringMutation = [status |-> "idle"]
    /\ clusteringInFlight = <<>>
    /\ clusteringRequests = {}

ResultsIdle ==
    /\ fileId = "null"
    /\ results = <<>>
    /\ resultsLoading = FALSE
    /\ viewMode = "executive"
    /\ selectedResultId = "null"
    /\ analysisRequests = {}

NotebookIdle ==
    /\ advSelectedFileId = "null"
    /\ createMutation = [status |-> "idle"]
    /\ session = Null
    /\ notebookRequests = {}

\* State of the components that are not part of the specification at hand
UiIdle ==
    /\ ConcIdle
    /\ DrawerIdle
    /\ SummaryIdle
    /\ DevIdle
    /\ IngestIdle
    /\ ResultsIdle
    /\ NotebookIdle

NonConcIdle ==
    /\ DrawerIdle
    /\ SummaryIdle
    /\ DevIdle
    /\ IngestIdle
    /\ ResultsIdle
    /\ NotebookIdle

NonDrawerIdle ==
    /\ ConcIdle
    /\ SummaryIdle
    /\ DevIdle
    /\ IngestIdle
    /\ ResultsIdle
    /\ NotebookIdle

NonSummaryIdle ==
    /\ ConcIdle
    /\ DrawerIdle
    /\ DevIdle
    /\ IngestIdle
    /\ ResultsIdle
    /\ NotebookIdle

NonDevIdle ==
    /\ ConcIdle
    /\ DrawerIdle
    /\ SummaryIdle
    /\ IngestIdle
    /\ ResultsIdle
    /\ NotebookIdle

NonIngestIdle ==
    /\ ConcIdle
    /\ DrawerIdle
    /\ SummaryIdle
    /\ DevIdle
    /\ ResultsIdle
    /\ NotebookIdle

NonResultsIdle ==
    /\ ConcIdle
    /\ DrawerIdle
    /\ SummaryIdle
    /\ DevIdle
    /\ IngestIdle
    /\ NotebookIdle

NonNotebookIdle ==
    /\ ConcIdle
    /\ DrawerIdle
    /\ SummaryIdle
    /\ DevIdle
    /\ IngestIdle
    /\ ResultsIdle

----------------------------------------------------------------------------
(* Algorithm Selector *)

KMEANS == "K-Means"
DBSCAN == "DBSCAN"
HDBSCAN == "HDBSCAN"
HIERARCHICAL == "Hierarchical"
GMM == "GMM"

Algorithms == {KMEANS, DBSCAN, HDBSCAN, HIERARCHICAL, GMM}
DensityBased == {DBSCAN, HDBSCAN}

\* Thresholds of the automatic selection logic
SmallThreshold == 10
LargeThreshold == 100
MediumThreshold == 50

select_algorithm_le50(n) ==
    IF n < SmallThreshold THEN KMEANS
    ELSE IF n > LargeThreshold THEN HDBSCAN
    ELSE IF n >= MediumThreshold THEN DBSCAN
    ELSE KMEANS

select_algorithm(n) ==
    IF n < SmallThreshold THEN KMEANS
    ELSE IF n > LargeThreshold THEN HDBSCAN
    ELSE IF n > MediumThreshold THEN DBSCAN
    ELSE KMEANS

\* HDBSCAN defaults: min_cluster_size = max(5, n // 20)
hdbscan_min_cluster_size_ceil(n) == Max(5, (n + 19) \div 20)

hdbscan_min_cluster_size(n) == Max(5, n \div 20)

\* HDBSCAN defaults: min_samples = max(3, min_cluster_size // 2)
hdbscan_min_samples(mcs) == Max(3, mcs \div 2)

\* DBSCAN defaults: neighbour count max(3, n/20), radius a fixed small
\* constant (in tenths: 5 stands for 0.5)
DefaultEps == 5
dbscan_min_samples(n) == Max(3, n \div 20)

\* K-Means default: 3 clusters, capped at n-1
DefaultK == 3
kmeans_n_clusters_uncapped(n) == DefaultK

kmeans_n_clusters(n) == Min(DefaultK, n - 1)

default_parameters(alg, n) ==
    IF alg = KMEANS THEN [n_clusters |-> kmeans_n_clusters(n)]
    ELSE IF alg = DBSCAN
        THEN [eps |-> DefaultEps, min_samples |-> dbscan_min_samples(n)]
    ELSE [min_cluster_size |-> hdbscan_min_cluster_size(n),
          min_samples |-> hdbscan_min_samples(hdbscan_min_cluster_size(n))]

default_choice(n) ==
    [algorithm |-> select_algorithm(n),
     parameters |-> default_parameters(select_algorithm(n), n)]

\* Name of the cluster-count parameter of the fixed-count algorithms
ClusterCountParam(alg) == IF alg = GMM THEN "n_components" ELSE "n_clusters"

\* Validation of a caller override: cluster count >= 1 and < n, density
\* parameters positive.  Returns "ok" or the error.
validate_override_lenient(ov, n) == "ok"

validate_override(ov, n) ==
    IF ov.algorithm \in DensityBased
    THEN IF \A p \in DOMAIN ov.parameters : ov.parameters[p] > 0
         THEN "ok" ELSE "ClusteringExecutionError"
    ELSE LET k == ov.parameters[ClusterCountParam(ov.algorithm)] IN
         IF k >= n THEN "InsufficientSamples"
         ELSE IF k < 1 THEN "ClusteringExecutionError"
         ELSE "ok"

\* The selector: an override bypasses the default policy
resolve_choice_fallback(n, ov) ==
    IF ov = NoOverride THEN [status |-> "ok", choice |-> default_choice(n)]
    ELSE IF validate_override(ov, n) = "ok"
         THEN [status |-> "ok", choice |-> ov]
         ELSE [status |-> "ok", choice |-> default_choice(n)]

resolve_choice(n, ov) ==
    IF ov = NoOverride THEN [status |-> "ok", choice |-> default_choice(n)]
    ELSE IF validate_override(ov, n) = "ok"
         THEN [status |-> "ok", choice |-> ov]
         ELSE [status |-> "error", error |-> validate_override(ov, n)]

----------------------------------------------------------------------------
(* SelSpec: the selector as a function of n_samples and the override *)

SelOverrides ==
    {NoOverride}
    \cup {[algorithm |-> a, parameters |-> [n_clusters |-> k]] :
            a \in {KMEANS, HIERARCHICAL}, k \in {0, 1, 5, 10}}
    \cup {[algorithm |-> GMM, parameters |-> [n_components |-> k]] :
            k \in {0, 2, 10}}
    \cup {[algorithm |-> DBSCAN,
           parameters |-> [eps |-> e, min_samples |-> m]] :
            e \in {0, 3}, m \in {0, 4}}
    \cup {[algorithm |-> HDBSCAN,
           parameters |-> [min_cluster_size |-> c, min_samples |-> m]] :
            c \in {0, 7}, m \in {2}}

RunIdle ==
    /\ dataset = <<>>
    /\ override = NoOverride
    /\ pc = "idle"
    /\ matrix = NotRun
    /\ choice = NotRun
    /\ labels = <<>>
    /\ metrics = NotRun
    /\ projection = NotRun
    /\ result = NotRun
    /\ error = "none"
    /\ analysis = NotRun

SelInit ==
    /\ n_samples \in 1..MaxSamples
    /\ sel_override \in SelOverrides
    /\ sel_outcome = NotRun
    /\ RunIdle
    /\ UiIdle

SelectAlgorithmCall ==
    /\ sel_outcome = NotRun
    /\ sel_outcome' = resolve_choice(n_samples, sel_override)
    /\ UNCHANGED <<n_samples, sel_override>>
    /\ UNCHANGED <<runvars, uivars>>

SelNext == SelectAlgorithmCall

SelSpec == SelInit /\ [][SelNext]_vars

----------------------------------------------------------------------------
(* Dataset: an ordered sequence of records over the columns c1, c2.  A     *)
(* value is numeric, text or missing.                                      *)

Num(i) == [kind |-> "num", v |-> i]
Text(i) == [kind |-> "text", v |-> i]
Missing == [kind |-> "missing", v |-> 0]

Columns == <<"c1", "c2">>
ColumnSet == {Columns[j] : j \in 1..Len(Columns)}

Rows == [c1 : {Num(1), Num(2), Text(1), Missing},
         c2 : {Num(1), Num(2), Text(2), Missing}]

Datasets == UNION {[1..n -> Rows] : n \in 1..MaxRows}

\* Records of the datasets a whole run is followed on
RunRows ==
    {[c1 |-> Num(1), c2 |-> Num(1)],
     [c1 |-> Num(2), c2 |-> Num(1)],
     [c1 |-> Missing, c2 |-> Num(2)],
     [c1 |-> Text(1), c2 |-> Missing],
     [c1 |-> Text(1), c2 |-> Num(1)]}

RunDatasets == UNION {[1..n -> RunRows] : n \in 1..MaxRows}

RECURSIVE SumSeq(_)
SumSeq(s) == IF s = <<>> THEN 0 ELSE Head(s) + SumSeq(Tail(s))

RECURSIVE GCD(_, _)
GCD(a, b) == IF b = 0 THEN a ELSE GCD(b, a % b)

\* Subsequence of s at the positions (ascending) that satisfy keep
RECURSIVE SelectIndices(_, _)
SelectIndices(n, keep) ==
    IF n = 0 THEN <<>>
    ELSE IF n \in keep THEN Append(SelectIndices(n - 1, keep), n)
    ELSE SelectIndices(n - 1, keep)

----------------------------------------------------------------------------
(* Feature Preprocessor *)

ColumnValuesOf(ds, c) == {ds[i][c] : i \in 1..Len(ds)}

\* Step 1: numeric dtype columns, minus those all-NaN or constant
IsNumericDtype(ds, c) ==
    \A i \in 1..Len(ds) : ds[i][c].kind \in {"num", "missing"}

NonMissingValues(ds, c) == {x \in ColumnValuesOf(ds, c) : x.kind # "missing"}

numeric_cols_keep_constant(ds) ==
    {c \in ColumnSet :
        /\ IsNumericDtype(ds, c)
        /\ Cardinality(NonMissingValues(ds, c)) >= 1}

numeric_cols(ds) ==
    {c \in ColumnSet :
        /\ IsNumericDtype(ds, c)
        /\ Cardinality(NonMissingValues(ds, c)) >= 2}

\* Step 2: categorical (object dtype) columns with at least 2 unique values,
\* the placeholder __MISSING__ counting as a value
IsCategoricalDtype(ds, c) == \E i \in 1..Len(ds) : ds[i][c].kind = "text"

categorical_cols_ignore_missing(ds) ==
    {c \in ColumnSet :
        /\ IsCategoricalDtype(ds, c)
        /\ Cardinality(NonMissingValues(ds, c)) >= 2}

categorical_cols(ds) ==
    {c \in ColumnSet :
        /\ IsCategoricalDtype(ds, c)
        /\ Cardinality(ColumnValuesOf(ds, c)) >= 2}

\* LabelEncoder: codes are the ranks of the values in the sorted order of
\* their string forms: "1" < "2" < "__MISSING__" < "a" < "b"
StringRank(x) ==
    IF x.kind = "num" THEN x.v
    ELSE IF x.kind = "missing" THEN 3
    ELSE 3 + x.v

\* Position of the first record holding x in column c
FirstIndex(ds, c, x) ==
    CHOOSE i \in 1..Len(ds) :
        /\ ds[i][c] = x
        /\ \A j \in 1..(i - 1) : ds[j][c] # x

label_encode_first_appearance(ds, c, x) ==
    Cardinality({y \in ColumnValuesOf(ds, c) :
                    FirstIndex(ds, c, y) < FirstIndex(ds, c, x)})

label_encode(ds, c, x) ==
    Cardinality({y \in ColumnValuesOf(ds, c) : StringRank(y) < StringRank(x)})

\* Rows kept: those without a missing value in a selected numeric column
retained_rows_keep_all(ds, cols) == SelectIndices(Len(ds), 1..Len(ds))

retained_rows(ds, cols) ==
    SelectIndices(Len(ds),
        {i \in 1..Len(ds) : \A c \in cols : ds[i][c].kind # "missing"})

\* Raw numeric table before scaling, column by column
raw_column(ds, rows, c, numeric) ==
    [r \in 1..Len(rows) |->
        IF numeric THEN ds[rows[r]][c].v ELSE label_encode(ds, c, ds[rows[r]][c])]

\* StandardScaler: z = (x - mean) / std over the retained rows.  With
\* d = n*x - sum(x) and Q = sum(d^2), z^2 = n*d^2 / Q; a z value is kept
\* exactly as its sign and the reduced fraction of its square.
Deviation(col, r) == Len(col) * col[r] - SumSeq(col)
SumSqDev(col) == SumSeq([r \in 1..Len(col) |-> Deviation(col, r) * Deviation(col, r)])

Sign(d) == IF d > 0 THEN 1 ELSE IF d < 0 THEN -1 ELSE 0

standard_scale(col, r) ==
    LET d == Deviation(col, r)
        n2 == Len(col) * d * d
        q == SumSqDev(col)
        g == GCD(n2, q)
    IN [sign |-> Sign(d), num |-> n2 \div g, den |-> q \div g]

IsConstant(col) == SumSqDev(col) = 0

OrderedColumns(cols) ==
    SelectIndices(Len(Columns), {j \in 1..Len(Columns) : Columns[j] \in cols})

build_matrix(ds, cols, numeric) ==
    LET rows == retained_rows(ds, IF numeric THEN cols ELSE {})
        raw == [c \in cols |-> raw_column(ds, rows, c, numeric)]
        kept == {c \in cols : ~IsConstant(raw[c])}
        order == OrderedColumns(kept)
    IN [rows |-> rows,
        columns |-> [j \in 1..Len(order) |-> Columns[order[j]]],
        values |-> [r \in 1..Len(rows) |->
                      [j \in 1..Len(order) |->
                          standard_scale(raw[Columns[order[j]]], r)]]]

preprocess_data_no_error(ds) ==
    IF numeric_cols(ds) # {}
    THEN [status |-> "ok", matrix |-> build_matrix(ds, numeric_cols(ds), TRUE)]
    ELSE [status |-> "ok", matrix |-> build_matrix(ds, categorical_cols(ds), FALSE)]

preprocess_data(ds) ==
    IF numeric_cols(ds) # {}
    THEN [status |-> "ok", matrix |-> build_matrix(ds, numeric_cols(ds), TRUE)]
    ELSE IF categorical_cols(ds) # {}
    THEN [status |-> "ok", matrix |-> build_matrix(ds, categorical_cols(ds), FALSE)]
    ELSE [status |-> "error", error |-> "InsufficientFeatures"]

----------------------------------------------------------------------------
(* Clustering Executor *)

NOISE == -1
MaxDensityClusters == 2   \* cluster ids a density-based run may hand out

IsFixedCount(alg) == alg \notin DensityBased

cluster_count(ch) == ch.parameters[ClusterCountParam(ch.algorithm)]

\* Fails when the parameters are invalid or the matrix has fewer rows than
\* the algorithm needs
check_executable(n, ch) ==
    IF n < 1 THEN "ClusteringExecutionError"
    ELSE IF IsFixedCount(ch.algorithm)
            /\ (cluster_count(ch) < 1 \/ n < cluster_count(ch))
        THEN "ClusteringExecutionError"
    ELSE "ok"

\* Labels an algorithm can hand out: fixed-count algorithms label 0..k-1,
\* density-based ones add the noise label -1
label_domain_all_noise_aware(ch) == NOISE..(MaxDensityClusters - 1)

label_domain(ch) ==
    IF IsFixedCount(ch.algorithm) THEN 0..(cluster_count(ch) - 1)
    ELSE NOISE..(MaxDensityClusters - 1)

\* One label per FeatureMatrix row
labelled_rows_of_dataset(ds, m) == 1..Len(ds)

labelled_rows(ds, m) == 1..Len(m.rows)

----------------------------------------------------------------------------
(* Metrics Calculator *)

MetricNames == {"silhouette_score", "davies_bouldin_index",
                "calinski_harabasz_index", "n_clusters", "n_noise"}

EmptyMetricSet == [entries |-> {}]

non_noise_labels(ls) == {ls[i] : i \in 1..Len(ls)} \ {NOISE}
noise_rows(ls) == {i \in 1..Len(ls) : ls[i] = NOISE}

calculate_metrics_raising(m, ls) ==
    IF Cardinality(non_noise_labels(ls)) < 2
    THEN [status |-> "error", error |-> "ClusteringExecutionError"]
    ELSE [status |-> "ok",
          metrics |-> [entries |-> MetricNames,
                       n_clusters |-> Cardinality(non_noise_labels(ls)),
                       n_noise |-> Cardinality(noise_rows(ls)),
                       scored_rows |-> (1..Len(ls)) \ noise_rows(ls)]]

calculate_metrics(m, ls) ==
    IF Cardinality(non_noise_labels(ls)) < 2
    THEN [status |-> "ok", metrics |-> EmptyMetricSet]
    ELSE [status |-> "ok",
          metrics |-> [entries |-> MetricNames,
                       n_clusters |-> Cardinality(non_noise_labels(ls)),
                       n_noise |-> Cardinality(noise_rows(ls)),
                       scored_rows |-> (1..Len(ls)) \ noise_rows(ls)]]

----------------------------------------------------------------------------
(* Projection / Visualization Builder *)

create_clustering_visualization_always_pca(m, ls) ==
    IF Len(m.columns) >= 2
    THEN [kind |-> "pca", n_points |-> Len(m.rows), n_axes |-> 2]
    ELSE [kind |-> "pass_through", coordinates |-> m.values,
          noise |-> noise_rows(ls)]

create_clustering_visualization(m, ls) ==
    IF Len(m.columns) > 2
    THEN [kind |-> "pca", n_points |-> Len(m.rows), n_axes |-> 2]
    ELSE [kind |-> "pass_through", coordinates |-> m.values,
          noise |-> noise_rows(ls)]

----------------------------------------------------------------------------
(* Cluster Analysis & Narrative Generator *)

PriorityTiers == {"critical", "high", "medium", "low"}

RECURSIVE SortedLabels(_)
SortedLabels(S) ==
    IF S = {} THEN <<>>
    ELSE LET lo == CHOOSE x \in S : \A y \in S : x <= y
         IN <<lo>> \o SortedLabels(S \ {lo})

cluster_labels_with_noise(ls) == {ls[i] : i \in 1..Len(ls)}

\* The labels that get a ClusterSummary
cluster_labels(ls) == {ls[i] : i \in 1..Len(ls)} \ {NOISE}

\* Positions of the LabelAssignment that carry label k
cluster_rows(ls, k) == {i \in 1..Len(ls) : ls[i] = k}

\* Records are grouped by label, position i of the labels with record i of
\* the dataset handed to the analysis
analyze_cluster(ds, ls, k, tier) ==
    [cluster_id |-> k,
     size |-> Cardinality(cluster_rows(ls, k)),
     percentage |-> (100 * Cardinality(cluster_rows(ls, k))) \div Len(ls),
     records |-> [i \in cluster_rows(ls, k) |-> ds[i]],
     importance |-> [priority |-> tier]]

explain_noise(ds, ls) ==
    [size |-> Cardinality(noise_rows(ls)),
     records |-> [i \in noise_rows(ls) |-> ds[i]],
     reasons |-> <<"low density region", "mixed characteristics">>,
     recommendation |-> "review individually"]

is_inconclusive_no_clusters(ls, ms) == cluster_labels(ls) = {}

is_inconclusive(ls, ms) == Len(ls) = 0 \/ ms = EmptyMetricSet

IsPriority(c) == c.importance.priority \in {"critical", "high"}

\* Position of the largest cluster, the first one among equals
largest_cluster(cs) ==
    CHOOSE j \in 1..Len(cs) :
        /\ \A i \in 1..Len(cs) : cs[i].size <= cs[j].size
        /\ \A i \in 1..(j - 1) : cs[i].size < cs[j].size

headline_insights_largest_only(cs) ==
    <<[type |-> "primary", cluster_id |-> cs[largest_cluster(cs)].cluster_id]>>

headline_insights(cs) ==
    LET top == largest_cluster(cs)
        flagged == {j \in 1..Len(cs) : j # top /\ IsPriority(cs[j])}
        order == <<top>> \o SelectIndices(Len(cs), flagged)
    IN [p \in 1..Len(order) |->
           [type |-> IF IsPriority(cs[order[p]]) THEN "critical" ELSE "primary",
            cluster_id |-> cs[order[p]].cluster_id]]

generate_recommendations(cs, ls) ==
    <<"focus on the largest pattern", "track the clusters over time">>
    \o (IF \E j \in 1..Len(cs) : IsPriority(cs[j])
        THEN <<"address the high-priority clusters first">> ELSE <<>>)
    \o (IF noise_rows(ls) # {}
        THEN <<"review the unique cases individually">> ELSE <<>>)

generate_executive_summary(cs, ls, ms) ==
    IF is_inconclusive(ls, ms)
    THEN [status |-> "inconclusive",
          title |-> "Clustering was inconclusive",
          insights |-> <<>>,
          recommendations |-> <<"try another algorithm or more data">>]
    ELSE [status |-> "ok",
          title |-> "Cluster analysis",
          insights |-> headline_insights(cs),
          recommendations |-> generate_recommendations(cs, ls)]

analyze_clusters(ds, ls, ms, tiers) ==
    LET order == SortedLabels(cluster_labels(ls))
        cs == [j \in 1..Len(order) |->
                  analyze_cluster(ds, ls, order[j], tiers[order[j]])]
        out == [status |-> "ok",
                cluster_insights |-> cs,
                total_clusters |-> Len(cs),
                total_points |-> Len(ls),
                noise_points |-> Cardinality(noise_rows(ls)),
                executive_summary |-> generate_executive_summary(cs, ls, ms)]
    IN IF noise_rows(ls) # {}
       THEN out @@ [noise_explanation |-> explain_noise(ds, ls)]
       ELSE out

----------------------------------------------------------------------------
(* Spec: one run of run_clustering(dataset, algorithm_override) *)

RunOverrides ==
    {NoOverride}
    \cup {[algorithm |-> KMEANS, parameters |-> [n_clusters |-> k]] :
            k \in {0, 2, 10}}
    \cup {[algorithm |-> HIERARCHICAL, parameters |-> [n_clusters |-> 2]],
          [algorithm |-> GMM, parameters |-> [n_components |-> 2]]}
    \cup {[algorithm |-> DBSCAN,
           parameters |-> [eps |-> e, min_samples |-> 1]] : e \in {0, 3}}
    \cup {[algorithm |-> HDBSCAN,
           parameters |-> [min_cluster_size |-> 2, min_samples |-> 1]]}

SelIdle ==
    /\ n_samples = 0
    /\ sel_override = NoOverride
    /\ sel_outcome = NotRun

Init ==
    /\ dataset \in RunDatasets
    /\ override \in RunOverrides
    /\ pc = "start"
    /\ matrix = NotRun
    /\ choice = NotRun
    /\ labels = <<>>
    /\ metrics = NotRun
    /\ projection = NotRun
    /\ result = NotRun
    /\ error = "none"
    /\ analysis = NotRun
    /\ SelIdle
    /\ UiIdle

Fail(e) ==
    /\ pc' = "failed"
    /\ error' = e
    /\ result' = [status |-> "error", error |-> e]

Preprocess ==
    /\ pc = "start"
    /\ LET out == preprocess_data(dataset) IN
        IF out.status = "ok"
        THEN /\ matrix' = out.matrix
             /\ pc' = "preprocessed"
             /\ UNCHANGED <<result, error>>
        ELSE /\ Fail(out.error)
             /\ UNCHANGED matrix
    /\ UNCHANGED <<dataset, override, choice, labels, metrics, projection>>
    /\ UNCHANGED <<analysis, selvars, uivars>>

SelectAlgorithm ==
    /\ pc = "preprocessed"
    /\ LET out == resolve_choice(Len(matrix.rows), override) IN
        IF out.status = "ok"
        THEN /\ choice' = out.choice
             /\ pc' = "selected"
             /\ UNCHANGED <<result, error>>
        ELSE /\ Fail(out.error)
             /\ UNCHANGED choice
    /\ UNCHANGED <<dataset, override, matrix, labels, metrics, projection>>
    /\ UNCHANGED <<analysis, selvars, uivars>>

Reversed(s) == [i \in 1..Len(s) |-> s[Len(s) + 1 - i]]

ExecuteClustering_reordering_matrix ==
    /\ pc = "selected"
    /\ IF check_executable(Len(matrix.rows), choice) = "ok"
       THEN /\ labels' \in [labelled_rows(dataset, matrix) -> label_domain(choice)]
            /\ matrix' = [matrix EXCEPT !.rows = Reversed(matrix.rows),
                                        !.values = Reversed(matrix.values)]
            /\ pc' = "executed"
            /\ UNCHANGED <<result, error>>
       ELSE /\ Fail(check_executable(Len(matrix.rows), choice))
            /\ UNCHANGED <<labels, matrix>>
    /\ UNCHANGED <<dataset, override, choice, metrics, projection>>
    /\ UNCHANGED <<analysis, selvars, uivars>>

\* The algorithm runs and labels every row of the matrix
ExecuteClustering ==
    /\ pc = "selected"
    /\ IF check_executable(Len(matrix.rows), choice) = "ok"
       THEN /\ labels' \in [labelled_rows(dataset, matrix) -> label_domain(choice)]
            /\ pc' = "executed"
            /\ UNCHANGED <<result, error>>
       ELSE /\ Fail(check_executable(Len(matrix.rows), choice))
            /\ UNCHANGED labels
    /\ UNCHANGED <<dataset, override, matrix, choice, metrics, projection>>
    /\ UNCHANGED <<analysis, selvars, uivars>>

\* The algorithm cannot converge
ExecuteFailsToConverge ==
    /\ pc = "selected"
    /\ check_executable(Len(matrix.rows), choice) = "ok"
    /\ Fail("ClusteringExecutionError")
    /\ UNCHANGED <<dataset, override, matrix, choice, labels, metrics, projection>>
    /\ UNCHANGED <<analysis, selvars, uivars>>

CalculateMetrics ==
    /\ pc = "executed"
    /\ LET out == calculate_metrics(matrix, labels) IN
        IF out.status = "ok"
        THEN /\ metrics' = out.metrics
             /\ pc' = "measured"
             /\ UNCHANGED <<result, error>>
        ELSE /\ Fail(out.error)
             /\ UNCHANGED metrics
    /\ UNCHANGED <<dataset, override, matrix, choice, labels, projection>>
    /\ UNCHANGED <<analysis, selvars, uivars>>

CreateVisualization_before_labels ==
    /\ pc = "selected"
    /\ projection' = create_clustering_visualization(matrix, labels)
    /\ pc' = "visualized"
    /\ UNCHANGED <<dataset, override, matrix, choice, labels, metrics,
                   result, error>>
    /\ UNCHANGED <<analysis, selvars, uivars>>

CreateVisualization ==
    /\ pc = "measured"
    /\ projection' = create_clustering_visualization(matrix, labels)
    /\ pc' = "visualized"
    /\ UNCHANGED <<dataset, override, matrix, choice, labels, metrics,
                   result, error>>
    /\ UNCHANGED <<analysis, selvars, uivars>>

Return ==
    /\ pc = "visualized"
    /\ pc' = "done"
    /\ result' = [status |-> "ok", algorithm_choice |-> choice,
                  labels |-> labels, metrics |-> metrics,
                  projection |-> projection]
    /\ UNCHANGED <<dataset, override, matrix, choice, labels, metrics,
                   projection, error>>
    /\ UNCHANGED <<analysis, selvars, uivars>>

\* The caller views the stored result: the analysis is derived from the
\* original dataset, the labels and the metrics; the importance heuristics
\* put every cluster in one of the priority tiers
Analyze ==
    /\ pc = "done"
    /\ analysis = NotRun
    /\ \E tiers \in [cluster_labels(labels) -> PriorityTiers] :
          analysis' = analyze_clusters(dataset, labels, metrics, tiers)
    /\ UNCHANGED <<dataset, override, pc, matrix, choice, labels, metrics,
                   projection, result, error>>
    /\ UNCHANGED <<selvars, uivars>>

Next ==
    \/ Preprocess
    \/ SelectAlgorithm
    \/ ExecuteClustering
    \/ ExecuteFailsToConverge
    \/ CalculateMetrics
    \/ CreateVisualization
    \/ Return

Spec == Init /\ [][Next]_vars

----------------------------------------------------------------------------
(* PreSpec: the Feature Preprocessor alone, over every dataset of Datasets *)

PreInit ==
    /\ dataset \in Datasets
    /\ override = NoOverride
    /\ pc = "start"
    /\ matrix = NotRun
    /\ choice = NotRun
    /\ labels = <<>>
    /\ metrics = NotRun
    /\ projection = NotRun
    /\ result = NotRun
    /\ error = "none"
    /\ analysis = NotRun
    /\ SelIdle
    /\ UiIdle

PreNext == Preprocess

PreSpec == PreInit /\ [][PreNext]_vars

----------------------------------------------------------------------------
(* ProjSpec: the Projection / Visualization Builder alone, over scaled     *)
(* matrices of 0 to MaxFeatures columns and 2 to MaxRows rows; a column    *)
(* before scaling holds 1 in its first rows and 2 in the remaining ones    *)

MaxLabels == 4      \* longest cluster_labels array rendered in SummarySpec
MaxFeatures == 3    \* widest FeatureMatrix (in columns) in ProjSpec

FeatureName(j) == "f" \o ToString(j)

RawColumns(n) ==
    {[r \in 1..n |-> IF r <= s THEN 1 ELSE 2] : s \in 1..(n - 1)}

ScaledMatrix(n, raws) ==
    [rows |-> [r \in 1..n |-> r],
     columns |-> [j \in 1..Len(raws) |-> FeatureName(j)],
     values |-> [r \in 1..n |->
                   [j \in 1..Len(raws) |-> standard_scale(raws[j], r)]]]

ProjInit ==
    /\ \E n \in 2..MaxRows, k \in 0..MaxFeatures :
          \E raws \in [1..k -> RawColumns(n)] :
              matrix = ScaledMatrix(n, raws)
    /\ labels \in [1..Len(matrix.rows) -> {NOISE, 0}]
    /\ pc = "measured"
    /\ dataset = <<>>
    /\ override = NoOverride
    /\ choice = NotRun
    /\ metrics = NotRun
    /\ projection = NotRun
    /\ result = NotRun
    /\ error = "none"
    /\ analysis = NotRun
    /\ SelIdle
    /\ UiIdle

ProjNext == CreateVisualization

ProjSpec == ProjInit /\ [][ProjNext]_vars

----------------------------------------------------------------------------
(* AnaSpec: analyze_clusters alone, over datasets of 0 to MaxRows distinct *)
(* records, every LabelAssignment not longer than the dataset (the empty   *)
(* one included) and the MetricSet computed from it                        *)

AnaDataset(n) == [i \in 1..n |-> [c1 |-> Num(i), c2 |-> Text(1)]]

AnaLabels(n) ==
    UNION {[1..m -> NOISE..(MaxDensityClusters - 1)] : m \in 0..n}

AnaInit ==
    /\ \E n \in 0..MaxRows :
          /\ dataset = AnaDataset(n)
          /\ labels \in AnaLabels(n)
    /\ metrics = calculate_metrics(NotRun, labels).metrics
    /\ pc = "done"
    /\ override = NoOverride
    /\ matrix = NotRun
    /\ choice = NotRun
    /\ projection = NotRun
    /\ result = NotRun
    /\ error = "none"
    /\ analysis = NotRun
    /\ SelIdle
    /\ UiIdle

AnaNext == Analyze

AnaSpec == AnaInit /\ [][AnaNext]_vars

----------------------------------------------------------------------------
(* ViewSpec: a run under the default policy followed by the analysis of    *)
(* its stored result, over datasets whose records may miss a value         *)

ViewRows ==
    {[c1 |-> Num(1), c2 |-> Num(1)],
     [c1 |-> Num(2), c2 |-> Num(1)],
     [c1 |-> Missing, c2 |-> Num(2)]}

ViewDatasets == UNION {[1..n -> ViewRows] : n \in 1..MaxRows}

ViewInit ==
    /\ dataset \in ViewDatasets
    /\ override = NoOverride
    /\ pc = "start"
    /\ matrix = NotRun
    /\ choice = NotRun
    /\ labels = <<>>
    /\ metrics = NotRun
    /\ projection = NotRun
    /\ result = NotRun
    /\ error = "none"
    /\ analysis = NotRun
    /\ SelIdle
    /\ UiIdle

ViewNext ==
    \/ Next
    \/ Analyze

ViewSpec == ViewInit /\ [][ViewNext]_vars

----------------------------------------------------------------------------
(* ConcSpec: several runs of run_clustering executing concurrently, their  *)
(* stages interleaved in any order; every run owns its own FeatureMatrix,  *)
(* LabelAssignment and MetricSet                                           *)

RunIds == {1, 2}

ConcDatasets ==
    {<<[c1 |-> Num(1), c2 |-> Num(1)], [c1 |-> Num(2), c2 |-> Num(1)]>>,
     <<[c1 |-> Num(1), c2 |-> Num(2)], [c1 |-> Num(2), c2 |-> Num(1)],
       [c1 |-> Num(2), c2 |-> Num(2)]>>,
     <<[c1 |-> Num(1), c2 |-> Num(1)], [c1 |-> Num(1), c2 |-> Num(1)]>>}

NewRun(ds, ov) ==
    [dataset |-> ds, override |-> ov, pc |-> "start", matrix |-> NotRun,
     choice |-> NotRun, labels |-> <<>>, metrics |-> NotRun,
     projection |-> NotRun, result |-> NotRun, error |-> "none"]

FailedRun(run, e) ==
    [run EXCEPT !.pc = "failed", !.error = e,
                !.result = [status |-> "error", error |-> e]]

\* The states one stage of run_clustering can take a run to
StageOutcomes(run) ==
    IF run.pc = "start" THEN
        LET out == preprocess_data(run.dataset) IN
        IF out.status = "ok"
        THEN {[run EXCEPT !.matrix = out.matrix, !.pc = "preprocessed"]}
        ELSE {FailedRun(run, out.error)}
    ELSE IF run.pc = "preprocessed" THEN
        LET out == resolve_choice(Len(run.matrix.rows), run.override) IN
        IF out.status = "ok"
        THEN {[run EXCEPT !.choice = out.choice, !.pc = "selected"]}
        ELSE {FailedRun(run, out.error)}
    ELSE IF run.pc = "selected" THEN
        IF check_executable(Len(run.matrix.rows), run.choice) = "ok"
        THEN {[run EXCEPT !.labels = ls, !.pc = "executed"] :
                 ls \in [labelled_rows(run.dataset, run.matrix)
                            -> label_domain(run.choice)]}
             \cup {FailedRun(run, "ClusteringExecutionError")}
        ELSE {FailedRun(run, check_executable(Len(run.matrix.rows), run.choice))}
    ELSE IF run.pc = "executed" THEN
        {[run EXCEPT !.metrics = calculate_metrics(run.matrix, run.labels).metrics,
                     !.pc = "measured"]}
    ELSE IF run.pc = "measured" THEN
        {[run EXCEPT !.projection =
                         create_clustering_visualization(run.matrix, run.labels),
                     !.pc = "visualized"]}
    ELSE IF run.pc = "visualized" THEN
        {[run EXCEPT !.pc = "done",
                     !.result = [status |-> "ok", algorithm_choice |-> run.choice,
                                 labels |-> run.labels, metrics |-> run.metrics,
                                 projection |-> run.projection]]}
    ELSE {}

ConcInit ==
    /\ runs \in [RunIds -> {NewRun(ds, NoOverride) : ds \in ConcDatasets}]
    /\ RunIdle
    /\ SelIdle
    /\ NonConcIdle

RunStage_shared_matrix(r) ==
    \E next \in StageOutcomes(runs[r]) :
        runs' = [s \in RunIds |->
                    IF s = r THEN next
                    ELSE [runs[s] EXCEPT !.matrix = next.matrix]]

\* Run r executes its next stage; the stage works on the run's own state
RunStage(r) ==
    \E next \in StageOutcomes(runs[r]) :
        runs' = [runs EXCEPT ![r] = next]

StepOfARun ==
    /\ \E r \in RunIds : RunStage(r)
    /\ UNCHANGED <<runvars, selvars, nonconcvars>>

ConcNext == StepOfARun

ConcSpec == ConcInit /\ [][ConcNext]_vars

----------------------------------------------------------------------------
(* DrawerSpec: ClusteringResults opening and closing the                   *)
(* ClusterDetailDrawer                                                     *)

ResultIds == {"r1", "r2"}
ClusterIds == NOISE..(MaxDensityClusters - 1)

getClusterDetails(resultId, clusterId) ==
    [endpoint |-> "getClusterDetails", resultId |-> resultId,
     clusterId |-> clusterId]

getNoisePoints(resultId) == [endpoint |-> "getNoisePoints", resultId |-> resultId]

isNoisePoints(clusterId) == clusterId = -1

detailQueryFn_always_details(resultId, clusterId) ==
    getClusterDetails(resultId, clusterId)

detailQueryFn(resultId, clusterId) ==
    IF isNoisePoints(clusterId) THEN getNoisePoints(resultId)
    ELSE getClusterDetails(resultId, clusterId)

\* The requests a render of the drawer with these props issues: the query
\* is enabled only while the drawer is open
ClusterDetailDrawer(props) ==
    IF props.isOpen
    THEN {[request |-> detailQueryFn(props.resultId, props.clusterId),
           props |-> props]}
    ELSE {}

\* Props ClusteringResults renders the drawer with
DrawerProps(sc) ==
    [resultId |-> sc.resultId, clusterId |-> sc.clusterId, isOpen |-> sc # Null]

DrawerInit ==
    /\ DrawerIdle
    /\ RunIdle
    /\ SelIdle
    /\ NonDrawerIdle

OnClusterClick ==
    /\ \E resultId \in ResultIds, clusterId \in ClusterIds :
          LET sc == [resultId |-> resultId, clusterId |-> clusterId] IN
          /\ selectedCluster' = sc
          /\ detailRequests' =
                 detailRequests \cup ClusterDetailDrawer(DrawerProps(sc))
    /\ UNCHANGED <<runvars, selvars, nondrawervars>>

\* The drawer is not rendered when no cluster is selected
OnClose ==
    /\ selectedCluster # Null
    /\ selectedCluster' = Null
    /\ UNCHANGED detailRequests
    /\ UNCHANGED <<runvars, selvars, nondrawervars>>

DrawerNext ==
    \/ OnClusterClick
    \/ OnClose

DrawerSpec == DrawerInit /\ [][DrawerNext]_vars

----------------------------------------------------------------------------
(* SummarySpec: the result summary rendered from result.cluster_labels     *)

\* new Set(cluster_labels).size
SetSize(ls) == Cardinality({ls[i] : i \in 1..Len(ls)})

includes(ls, x) == \E i \in 1..Len(ls) : ls[i] = x

\* cluster_labels.filter(l => l === x).length
filter_length(ls, x) == Cardinality({i \in 1..Len(ls) : ls[i] = x})

\* The noise fragment is rendered only when the array includes -1
result_summary(ls) ==
    [total_points |-> Len(ls),
     unique_clusters |-> SetSize(ls),
     noise_points |-> IF includes(ls, -1) THEN <<filter_length(ls, -1)>> ELSE <<>>]

SummaryLabelArrays(n) == [1..n -> NOISE..(MaxDensityClusters - 1)]

SummaryInit ==
    /\ \E n \in 1..MaxLabels : result_cluster_labels \in SummaryLabelArrays(n)
    /\ summary = NotRun
    /\ RunIdle
    /\ SelIdle
    /\ NonSummaryIdle

RenderSummary ==
    /\ summary = NotRun
    /\ summary' = result_summary(result_cluster_labels)
    /\ UNCHANGED result_cluster_labels
    /\ UNCHANGED <<runvars, selvars, nonsummaryvars>>

SummaryNext == RenderSummary

SummarySpec == SummaryInit /\ [][SummaryNext]_vars

----------------------------------------------------------------------------
(* DevSpec: DeviceManager inside AIMode: selecting a device, the delete    *)
(* dialog and deleteMutation                                               *)

SAVE_BUTTON == "Save Files & Delete Device"
DELETE_FILES_BUTTON == "Delete Files & Device"

\* deleteConfirm?.deviceId and deleteConfirm?.saveFiles ?? true
deviceId_of(dc) == IF dc = Null THEN "undefined" ELSE dc.deviceId
saveFiles_of(dc) == IF dc = Null THEN TRUE ELSE dc.saveFiles

\* deleteDevice(deviceId, saveDataFiles): DELETE /api/devices/{deviceId}
\* with body {save_data_files}
deleteDevice(deviceId, saveDataFiles) ==
    [deviceId |-> deviceId, save_data_files |-> saveDataFiles]

\* handleDelete as defined by the render in which deleteConfirm is dc
handleDelete(dc, deviceId) == [deviceId |-> deviceId, saveFiles |-> saveFiles_of(dc)]

DevInit ==
    /\ DevIdle
    /\ RunIdle
    /\ SelIdle
    /\ NonDevIdle

\* Clicking a listed device toggles the selection.  The list lies under
\* the overlay of the delete dialog.
DeviceClick ==
    /\ deleteConfirm = Null
    /\ \E d \in devices :
          selectedDevice' = IF d = selectedDevice THEN "null" ELSE d
    /\ UNCHANGED <<devices, deleteConfirm, deleteMutation, deleteRequests>>
    /\ UNCHANGED <<runvars, selvars, nondevvars>>

DeleteClick ==
    /\ deleteConfirm = Null
    /\ \E d \in devices :
          deleteConfirm' = [deviceId |-> d, saveFiles |-> TRUE]
    /\ UNCHANGED <<selectedDevice, devices, deleteMutation, deleteRequests>>
    /\ UNCHANGED <<runvars, selvars, nondevvars>>

\* Cancel button or a click on the overlay; neither is ever disabled
CancelDelete ==
    /\ deleteConfirm # Null
    /\ deleteConfirm' = Null
    /\ UNCHANGED <<selectedDevice, devices, deleteMutation, deleteRequests>>
    /\ UNCHANGED <<runvars, selvars, nondevvars>>

\* mutate(variables): the request goes out at once
Mutate(button, variables) ==
    /\ deleteMutation' = [status |-> "pending", variables |-> variables]
    /\ deleteRequests' = deleteRequests \cup
           {[button |-> button,
             request |-> deleteDevice(variables.deviceId, variables.saveFiles)]}

SaveFilesAndDelete ==
    /\ deleteConfirm # Null
    /\ deleteMutation.status # "pending"
    /\ Mutate(SAVE_BUTTON, handleDelete(deleteConfirm, deleteConfirm.deviceId))
    /\ UNCHANGED <<selectedDevice, devices, deleteConfirm>>
    /\ UNCHANGED <<runvars, selvars, nondevvars>>

\* setDeleteConfirm({...deleteConfirm, saveFiles: false}) takes effect with
\* the next render; handleDelete is the one of the render that is clicked
DeleteFilesAndDevice ==
    /\ deleteConfirm # Null
    /\ deleteMutation.status # "pending"
    /\ deleteConfirm' = [deleteConfirm EXCEPT !.saveFiles = FALSE]
    /\ Mutate(DELETE_FILES_BUTTON, handleDelete(deleteConfirm, deleteConfirm.deviceId))
    /\ UNCHANGED <<selectedDevice, devices>>
    /\ UNCHANGED <<runvars, selvars, nondevvars>>

\* onSuccess of deleteMutation, with the callbacks of the latest render
DeleteSuccess ==
    /\ deleteMutation.status = "pending"
    /\ deleteMutation' = [deleteMutation EXCEPT !.status = "success"]
    /\ devices' = devices \ {deleteMutation.variables.deviceId}
    /\ deleteConfirm' = Null
    /\ selectedDevice' = IF selectedDevice = deviceId_of(deleteConfirm)
                         THEN "null" ELSE selectedDevice
    /\ UNCHANGED deleteRequests
    /\ UNCHANGED <<runvars, selvars, nondevvars>>

\* The request failed: deleteMutation has no onError
DeleteError ==
    /\ deleteMutation.status = "pending"
    /\ deleteMutation' = [deleteMutation EXCEPT !.status = "error"]
    /\ UNCHANGED <<selectedDevice, devices, deleteConfirm, deleteRequests>>
    /\ UNCHANGED <<runvars, selvars, nondevvars>>

DevNext ==
    \/ DeviceClick
    \/ DeleteClick
    \/ CancelDelete
    \/ SaveFilesAndDelete
    \/ DeleteFilesAndDevice
    \/ DeleteSuccess
    \/ DeleteError

DevSpec == DevInit /\ [][DevNext]_vars

----------------------------------------------------------------------------
(* IngestSpec: DataIngestion: the file list, the 'Run Auto Clustering'     *)
(* button, clusteringMutation and the results panel                        *)

ProcessingStatuses == {"PENDING", "PROCESSING", "COMPLETED", "FAILED"}

\* runAutoClustering(data): POST /api/clustering/auto with body data
runAutoClustering(data) == data

\* handleAutoCluster(f): the variables handed to mutate
handleAutoCluster(f) == [data_file_id |-> f]

isPending(mutation) == mutation.status = "pending"

\* disabled of the 'Run Auto Clustering' button of a file
AutoClusterDisabled_ignoring_pending(f) == files[f] # "COMPLETED"

AutoClusterDisabled(f) ==
    isPending(clusteringMutation) \/ files[f] # "COMPLETED"

IngestInit ==
    /\ files \in [FileIds -> ProcessingStatuses]
    /\ selectedFileId = "null"
    /\ clusteringMutation = [status |-> "idle"]
    /\ clusteringInFlight = <<>>
    /\ clusteringRequests = {}
    /\ RunIdle
    /\ SelIdle
    /\ NonIngestIdle

\* The files query brings a new processing_status of a file
FilesRefetch ==
    /\ \E f \in FileIds, st \in ProcessingStatuses :
          files' = [files EXCEPT ![f] = st]
    /\ UNCHANGED <<selectedFileId, clusteringMutation, clusteringInFlight,
                   clusteringRequests>>
    /\ UNCHANGED <<runvars, selvars, noningestvars>>

AutoClusterClick ==
    /\ \E f \in FileIds :
          /\ ~AutoClusterDisabled(f)
          /\ LET variables == handleAutoCluster(f) IN
             /\ clusteringMutation' = [status |-> "pending", variables |-> variables]
             /\ clusteringInFlight' =
                    Append(clusteringInFlight, runAutoClustering(variables))
             /\ clusteringRequests' = clusteringRequests \cup
                    {[request |-> runAutoClustering(variables),
                      processing_status |-> files[f]]}
    /\ UNCHANGED <<files, selectedFileId>>
    /\ UNCHANGED <<runvars, selvars, noningestvars>>

\* A request is answered: clusteringMutation shows the outcome of the
\* latest mutate call
Answered(i, status) ==
    /\ clusteringInFlight' =
           [j \in 1..(Len(clusteringInFlight) - 1) |->
               IF j < i THEN clusteringInFlight[j] ELSE clusteringInFlight[j + 1]]
    /\ clusteringMutation' =
           IF i = Len(clusteringInFlight)
           THEN [clusteringMutation EXCEPT !.status = status]
           ELSE clusteringMutation

\* onSuccess(data, variables)
ClusteringSuccess ==
    /\ \E i \in 1..Len(clusteringInFlight) :
          /\ Answered(i, "success")
          /\ selectedFileId' = clusteringInFlight[i].data_file_id
    /\ UNCHANGED <<files, clusteringRequests>>
    /\ UNCHANGED <<runvars, selvars, noningestvars>>

\* clusteringMutation has no onError
ClusteringError ==
    /\ \E i \in 1..Len(clusteringInFlight) : Answered(i, "error")
    /\ UNCHANGED <<files, selectedFileId, clusteringRequests>>
    /\ UNCHANGED <<runvars, selvars, noningestvars>>

IngestNext ==
    \/ FilesRefetch
    \/ AutoClusterClick
    \/ ClusteringSuccess
    \/ ClusteringError

IngestSpec == IngestInit /\ [][IngestNext]_vars

----------------------------------------------------------------------------
(* ResultsSpec: ClusteringResults (executive and data scientist views)     *)
(* rendered by DataIngestion for the selected file                         *)

\* getClusteringResults(fileId): the results the server holds for a file,
\* newest first
getClusteringResults(f) ==
    IF f = "f1" THEN <<"r1", "r2">> ELSE <<"r3", "r4">>

\* selectedResultId || results?.[0]?.id
analysisResultId(sel, res) ==
    IF sel # "null" THEN sel
    ELSE IF res # <<>> THEN res[1] ELSE "undefined"

\* results.find(r => r.id === resultId) || results[0]; "none" while the
\* component renders the loading or the empty state
currentResult(sel, res, loading) ==
    IF loading \/ res = <<>> THEN "none"
    ELSE IF \E i \in 1..Len(res) : res[i] = analysisResultId(sel, res)
         THEN analysisResultId(sel, res)
         ELSE res[1]

\* enabled of the cluster-analysis query
analysisEnabled(sel, res, mode) ==
    analysisResultId(sel, res) # "undefined" /\ mode = "executive"

getClusterAnalysis(r) == [endpoint |-> "getClusterAnalysis", resultId |-> r]

\* The analysis query of a render
AnalysisQuery(sel, res, loading, mode) ==
    IF analysisEnabled(sel, res, mode)
    THEN {[request |-> getClusterAnalysis(analysisResultId(sel, res)),
           displayed |-> currentResult(sel, res, loading)]}
    ELSE {}

RenderResults ==
    analysisRequests' = analysisRequests \cup
        AnalysisQuery(selectedResultId', results', resultsLoading', viewMode')

ResultsInit ==
    /\ fileId \in FileIds
    /\ results = <<>>
    /\ resultsLoading = TRUE
    /\ viewMode = "executive"
    /\ selectedResultId = "null"
    /\ analysisRequests = {}
    /\ RunIdle
    /\ SelIdle
    /\ NonResultsIdle

\* The clustering-results query of the current fileId is answered
ResultsLoaded ==
    /\ resultsLoading
    /\ resultsLoading' = FALSE
    /\ results' = getClusteringResults(fileId)
    /\ UNCHANGED <<fileId, viewMode, selectedResultId>>
    /\ RenderResults
    /\ UNCHANGED <<runvars, selvars, nonresultsvars>>

\* DataIngestion renders the same component with another fileId: the
\* state of the component is kept
FileIdChange ==
    /\ \E f \in FileIds \ {fileId} : fileId' = f
    /\ resultsLoading' = TRUE
    /\ results' = <<>>
    /\ UNCHANGED <<viewMode, selectedResultId>>
    /\ RenderResults
    /\ UNCHANGED <<runvars, selvars, nonresultsvars>>

\* The result selector is shown when there is more than one result
ResultSelect ==
    /\ ~resultsLoading
    /\ Len(results) > 1
    /\ \E i \in 1..Len(results) : selectedResultId' = results[i]
    /\ UNCHANGED <<fileId, results, resultsLoading, viewMode>>
    /\ RenderResults
    /\ UNCHANGED <<runvars, selvars, nonresultsvars>>

SetViewMode ==
    /\ ~resultsLoading
    /\ results # <<>>
    /\ \E mode \in {"executive", "scientist"} : viewMode' = mode
    /\ UNCHANGED <<fileId, results, resultsLoading, selectedResultId>>
    /\ RenderResults
    /\ UNCHANGED <<runvars, selvars, nonresultsvars>>

ResultsNext ==
    \/ ResultsLoaded
    \/ FileIdChange
    \/ ResultSelect
    \/ SetViewMode

ResultsSpec == ResultsInit /\ [][ResultsNext]_vars

----------------------------------------------------------------------------
(* NotebookSpec: AdvancedMode: DataFileBrowser selecting a file and the    *)
(* NotebookLauncher of the selected file                                   *)

\* Files listed by the DataFileBrowser
BrowserFileIds == {"f1", "f2", "f3"}

\* createNotebook(dataFileId): POST /api/notebooks/create; the response
\* names the session created for the file
createNotebookRequest(dataFileId) == [data_file_id |-> dataFileId]

createNotebook(dataFileId) ==
    [session_id |-> "session-" \o dataFileId,
     notebook_url |-> "/notebooks/" \o dataFileId]

getNotebookSession(sessionId) == [session_id |-> sessionId, status |-> "running"]

\* !createMutation.data
NoNotebookData(mutation) == mutation.status # "success"

NotebookInit ==
    /\ NotebookIdle
    /\ RunIdle
    /\ SelIdle
    /\ NonNotebookIdle

\* onFileSelect(file.id === selectedFileId ? null : file.id).  The
\* launcher is rendered while a file is selected: it is unmounted when the
\* selection is cleared and keeps its state when another file is selected.
FileSelect ==
    /\ \E f \in BrowserFileIds :
          advSelectedFileId' = IF f = advSelectedFileId THEN "null" ELSE f
    /\ IF advSelectedFileId' = "null"
       THEN /\ createMutation' = [status |-> "idle"]
            /\ session' = Null
       ELSE UNCHANGED <<createMutation, session>>
    /\ UNCHANGED notebookRequests
    /\ UNCHANGED <<runvars, selvars, nonnotebookvars>>

\* handleCreateNotebook; the button is rendered while there is no
\* createMutation.data
CreateNotebookClick ==
    /\ advSelectedFileId # "null"
    /\ NoNotebookData(createMutation)
    /\ createMutation.status # "pending"
    /\ createMutation' = [status |-> "pending", variables |-> advSelectedFileId]
    /\ notebookRequests' =
           notebookRequests \cup {createNotebookRequest(advSelectedFileId)}
    /\ UNCHANGED <<advSelectedFileId, session>>
    /\ UNCHANGED <<runvars, selvars, nonnotebookvars>>

CreateSuccess ==
    /\ createMutation.status = "pending"
    /\ createMutation' = [status |-> "success",
                          variables |-> createMutation.variables,
                          data |-> createNotebook(createMutation.variables)]
    /\ UNCHANGED <<advSelectedFileId, session, notebookRequests>>
    /\ UNCHANGED <<runvars, selvars, nonnotebookvars>>

CreateError ==
    /\ createMutation.status = "pending"
    /\ createMutation' = [createMutation EXCEPT !.status = "error"]
    /\ UNCHANGED <<advSelectedFileId, session, notebookRequests>>
    /\ UNCHANGED <<runvars, selvars, nonnotebookvars>>

\* The notebook-session query, enabled once there is a session id
SessionLoaded ==
    /\ ~NoNotebookData(createMutation)
    /\ session' = getNotebookSession(createMutation.data.session_id)
    /\ UNCHANGED <<advSelectedFileId, createMutation, notebookRequests>>
    /\ UNCHANGED <<runvars, selvars, nonnotebookvars>>

NotebookNext ==
    \/ FileSelect
    \/ CreateNotebookClick
    \/ CreateSuccess
    \/ CreateError
    \/ SessionLoaded

NotebookSpec == NotebookInit /\ [][NotebookNext]_vars

----------------------------------------------------------------------------
(* Properties of the Algorithm Selector (SelSpec) *)

\* C24: for every n >= 1 handled by the default policy, the resolved
\* parameters pass the validation that caller overrides are subject to: a
\* centroid-based choice has 1 <= k < n and every density parameter is
\* positive.
C24_DefaultsPassOverrideValidation ==
    (sel_override = NoOverride /\ sel_outcome # NotRun) =>
        /\ sel_outcome.status = "ok"
        /\ validate_override(sel_outcome.choice, n_samples) = "ok"

SelDefaultDone == sel_override = NoOverride /\ sel_outcome # NotRun

C2_HdbscanDefaults ==
    (SelDefaultDone /\ n_samples > 100) =>
        LET prm == sel_outcome.choice.parameters
            mcs == prm.min_cluster_size
            ms == prm.min_samples
        IN /\ DOMAIN prm = {"min_cluster_size", "min_samples"}
           /\ mcs >= 5 /\ 20 * mcs >= n_samples - 19
           /\ (mcs = 5 \/ (20 * mcs <= n_samples /\ n_samples < 20 * mcs + 20))
           /\ ms >= 3 /\ 2 * ms >= mcs - 1
           /\ (ms = 3 \/ (2 * ms <= mcs /\ mcs < 2 * ms + 2))
           /\ ms <= mcs
           /\ (n_samples = 500 => mcs = 25 /\ ms = 12)

C2_Witness ==
    /\ SelDefaultDone
    /\ n_samples = 500
    /\ sel_outcome.choice.parameters.min_cluster_size = 25
    /\ sel_outcome.choice.parameters.min_samples = 12

\* C3: for every n < 10 the default policy resolves the K-Means cluster
\* count to k = min(3, n-1): the default 3 capped at n-1, so n = 5 gives
\* k <= 4 and k never exceeds n-1.
C3_SmallSampleClusterCount ==
    (SelDefaultDone /\ n_samples < 10) =>
        LET k == sel_outcome.choice.parameters.n_clusters IN
        /\ sel_outcome.choice.algorithm = KMEANS
        /\ k <= 3 /\ k <= n_samples - 1
        /\ (k = 3 \/ k = n_samples - 1)
        /\ (n_samples = 5 => k <= 4)

C3_Witness ==
    /\ SelDefaultDone
    /\ n_samples = 2
    /\ sel_outcome.choice.parameters.n_clusters = 1

----------------------------------------------------------------------------
(* Properties of a run (Spec) *)

RetainedRowCount == Len(matrix.rows)

\* The validation an override is subject to, as the selector states it
OverridePassesValidation ==
    IF override.algorithm \in {DBSCAN, HDBSCAN}
    THEN \A p \in DOMAIN override.parameters : override.parameters[p] > 0
    ELSE \E p \in DOMAIN override.parameters :
            /\ override.parameters[p] >= 1
            /\ override.parameters[p] < RetainedRowCount

PastSelection == matrix # NotRun /\ pc \notin {"start", "preprocessed"}

\* C4: a caller override bypasses the size-based default policy: when it
\* passes validation (cluster count >= 1 and < n, density parameters > 0)
\* the AlgorithmChoice is exactly the caller's algorithm and parameters; when
\* it fails validation the run stops with an error, nothing is executed and
\* the default policy is not used instead.
C4_OverrideUsedAsIs ==
    (override # NoOverride /\ PastSelection) =>
        IF OverridePassesValidation
        THEN choice = override
        ELSE /\ pc = "failed"
             /\ error # "none"
             /\ choice = NotRun
             /\ labels = <<>>
             /\ result = [status |-> "error", error |-> error]

C4_Witness ==
    /\ pc = "done"
    /\ override.algorithm = DBSCAN
    /\ result.algorithm_choice = override
    /\ default_choice(RetainedRowCount).algorithm = KMEANS

RequestedClusterCount ==
    IF override.algorithm = GMM THEN override.parameters.n_components
    ELSE override.parameters.n_clusters

RequestsTooManyClusters ==
    /\ override # NoOverride
    /\ override.algorithm \notin {DBSCAN, HDBSCAN}
    /\ matrix # NotRun
    /\ RequestedClusterCount >= RetainedRowCount

\* C5: a run whose requested cluster count k is not smaller than the
\* retained row count n ends with the fatal error InsufficientSamples and
\* returns no labels, metrics or projection.
C5_TooManyClustersIsInsufficientSamples ==
    RequestsTooManyClusters =>
        /\ pc \in {"preprocessed", "failed"}
        /\ labels = <<>> /\ metrics = NotRun /\ projection = NotRun
        /\ (pc = "failed" =>
                /\ error = "InsufficientSamples"
                /\ result = [status |-> "error", error |-> "InsufficientSamples"])

C5_Witness ==
    /\ RequestsTooManyClusters
    /\ RequestedClusterCount = 10
    /\ RetainedRowCount = MaxRows
    /\ pc = "failed"
    /\ error = "InsufficientSamples"

\* C6: when run_clustering succeeds the LabelAssignment has exactly one
\* label per FeatureMatrix row: its length is the number of rows retained
\* after the rows with missing numeric values were dropped, not the row
\* count of the original dataset.
C6_OneLabelPerRetainedRow ==
    /\ (pc \in {"executed", "measured", "visualized", "done"}
            => Len(labels) = RetainedRowCount /\ RetainedRowCount <= Len(dataset))
    /\ (pc = "done" => Len(result.labels) = RetainedRowCount)

C6_Witness ==
    /\ pc = "done"
    /\ Len(dataset) >= 2
    /\ RetainedRowCount < Len(dataset)
    /\ Len(result.labels) = RetainedRowCount

HasNoise(ls) == \E i \in 1..Len(ls) : ls[i] = -1

DistinctNonNoise(ls) == {x \in {ls[i] : i \in 1..Len(ls)} : x # -1}

Degenerate == pc \in {"executed", "measured", "visualized", "done"}
                /\ Cardinality(DistinctNonNoise(labels)) < 2

\* C8: for a LabelAssignment with fewer than 2 distinct non-noise labels the
\* Metrics Calculator returns an empty MetricSet as a value and never
\* raises; the run still completes with labels and projection.
C8_DegenerateMetricsAreEmpty ==
    /\ (Degenerate /\ pc # "executed"
            => metrics = [entries |-> {}] /\ error = "none")
    /\ (pc = "failed" /\ labels # <<>>
            => Cardinality(DistinctNonNoise(labels)) >= 2)
    /\ (Degenerate /\ pc = "done"
            => /\ result.status = "ok"
               /\ result.labels = labels
               /\ result.metrics = [entries |-> {}]
               /\ result.projection # NotRun)

C8_Witness ==
    /\ pc = "done"
    /\ DistinctNonNoise(labels) = {0}
    /\ HasNoise(labels)
    /\ result.metrics = [entries |-> {}]
    /\ result.projection # NotRun

----------------------------------------------------------------------------
(* Properties of the Feature Preprocessor (PreSpec) *)

AllNumericOrMissing(c) ==
    \A i \in 1..Len(dataset) : dataset[i][c].kind # "text"

VaryingNumeric(c) ==
    /\ AllNumericOrMissing(c)
    /\ \E i, j \in 1..Len(dataset) :
        /\ dataset[i][c].kind = "num" /\ dataset[j][c].kind = "num"
        /\ dataset[i][c].v # dataset[j][c].v

ConstantNumeric(c) ==
    /\ AllNumericOrMissing(c)
    /\ \E i \in 1..Len(dataset) : dataset[i][c].kind = "num"
    /\ ~VaryingNumeric(c)

UsableCategorical(c) ==
    /\ \E i \in 1..Len(dataset) : dataset[i][c].kind = "text"
    /\ \E i, j \in 1..Len(dataset) : dataset[i][c] # dataset[j][c]

Preprocessed == pc \in {"preprocessed", "failed"}

MatrixColumns == {matrix.columns[j] : j \in 1..Len(matrix.columns)}

\* C9: the preprocessor fails with InsufficientFeatures if and only if the
\* dataset has no numeric column with non-zero variance and no categorical
\* column with at least 2 distinct values; a constant numeric column next to
\* a varying numeric column never causes the error, it is only excluded.
C9_InsufficientFeaturesIff ==
    Preprocessed =>
        /\ (error = "InsufficientFeatures") <=>
                (\A c \in {"c1", "c2"} : ~VaryingNumeric(c) /\ ~UsableCategorical(c))
        /\ (error = "InsufficientFeatures") <=> (pc = "failed")
        /\ \A c, d \in {"c1", "c2"} :
                (ConstantNumeric(c) /\ VaryingNumeric(d))
                    => pc = "preprocessed" /\ c \notin MatrixColumns

C9_Witness ==
    /\ pc = "preprocessed"
    /\ ConstantNumeric("c2")
    /\ VaryingNumeric("c1")
    /\ matrix.columns = <<"c1">>

\* C10: categorical columns are features only when no numeric column
\* qualifies: with a numeric column of non-zero variance the features are
\* numeric columns only; otherwise they are exactly the categorical columns
\* with at least 2 distinct values, the placeholder for missing entries
\* counting as a value.
C10_CategoricalOnlyAsFallback ==
    pc = "preprocessed" =>
        IF \E c \in {"c1", "c2"} : VaryingNumeric(c)
        THEN \A c \in MatrixColumns : VaryingNumeric(c)
        ELSE MatrixColumns = {c \in {"c1", "c2"} : UsableCategorical(c)}

C10_Witness ==
    /\ pc = "preprocessed"
    /\ \A i \in 1..Len(dataset) : dataset[i]["c1"] \in {Text(1), Missing}
    /\ "c1" \in MatrixColumns

\* Order of two scaled values, each the sign and the fraction of its square
ZLess(a, b) ==
    IF a.sign # b.sign THEN a.sign < b.sign
    ELSE IF a.sign = 1 THEN a.num * b.den < b.num * a.den
    ELSE IF a.sign = -1 THEN a.num * b.den > b.num * a.den
    ELSE FALSE

CategoricalMode ==
    /\ pc = "preprocessed"
    /\ \A c \in {"c1", "c2"} : ~VaryingNumeric(c)

ColumnIndex(c) == CHOOSE j \in 1..Len(matrix.columns) : matrix.columns[j] = c

EncodedValue(i, c) == matrix.values[i][ColumnIndex(c)]

\* The string forms sort as "1" < "2" < "__MISSING__" < "a" < "b"
StringFormLess(x, y) ==
    \/ x.kind = "num" /\ y.kind \in {"missing", "text"}
    \/ x.kind = "missing" /\ y.kind = "text"
    \/ x.kind = y.kind /\ x.v < y.v

FirstSeenBefore(c, i, j) ==
    \E p \in 1..Len(dataset) :
        /\ dataset[p][c] = dataset[i][c]
        /\ \A q \in 1..p : dataset[q][c] # dataset[j][c]

\* C11 as stated: per categorical column the codes are injective and follow
\* the order of first appearance in row order (the value first seen earlier
\* gets the smaller code).
C11_CodesInFirstAppearanceOrder ==
    CategoricalMode =>
        \A c \in MatrixColumns : \A i, j \in 1..Len(dataset) :
            /\ (dataset[i][c] = dataset[j][c]
                    <=> EncodedValue(i, c) = EncodedValue(j, c))
            /\ (FirstSeenBefore(c, i, j)
                    => ZLess(EncodedValue(i, c), EncodedValue(j, c)))

\* C11 (amended): per categorical column the encoding is injective (equal
\* values get equal codes, different values different codes) and the codes
\* follow the sorted order of the values' string forms, as the label encoder
\* assigns them: the value that sorts first gets the smaller code, whatever
\* the order of appearance.
C11_CodesInSortedOrder ==
    CategoricalMode =>
        \A c \in MatrixColumns : \A i, j \in 1..Len(dataset) :
            /\ (dataset[i][c] = dataset[j][c]
                    <=> EncodedValue(i, c) = EncodedValue(j, c))
            /\ (StringFormLess(dataset[i][c], dataset[j][c])
                    => ZLess(EncodedValue(i, c), EncodedValue(j, c)))

C11_Witness ==
    /\ CategoricalMode
    /\ "c1" \in MatrixColumns
    /\ Len(dataset) >= 2
    /\ dataset[1]["c1"] = Text(1)
    /\ dataset[2]["c1"] = Num(1)
    /\ ZLess(EncodedValue(2, "c1"), EncodedValue(1, "c1"))

NumericMode ==
    /\ pc = "preprocessed"
    /\ \E c \in {"c1", "c2"} : VaryingNumeric(c)

RetainedSet == {matrix.rows[r] : r \in 1..Len(matrix.rows)}

CompleteRecord(i) ==
    \A c \in {"c1", "c2"} : VaryingNumeric(c) => dataset[i][c].kind # "missing"

ConstantOverRetained(c) ==
    \A i, j \in RetainedSet : dataset[i][c] = dataset[j][c]

\* C13: the FeatureMatrix has no missing value and no constant column: the
\* rows with a missing value in a selected numeric column are dropped before
\* scaling (the retained rows are exactly the complete ones, in row order), a
\* selected column that is constant over the remaining rows is excluded
\* instead of being divided by a zero deviation, and every entry of the
\* matrix is a defined number taking at least two values per column.
C13_NoMissingNoConstantColumn ==
    /\ NumericMode =>
        /\ RetainedSet = {i \in 1..Len(dataset) : CompleteRecord(i)}
        /\ \A r, s \in 1..Len(matrix.rows) :
               r < s => matrix.rows[r] < matrix.rows[s]
        /\ \A c \in {"c1", "c2"} :
               c \in MatrixColumns
                   <=> VaryingNumeric(c) /\ ~ConstantOverRetained(c)
    /\ pc = "preprocessed" =>
        /\ \A c \in MatrixColumns : ~ConstantOverRetained(c)
        /\ \A j \in 1..Len(matrix.columns) :
               \E r, s \in 1..Len(matrix.rows) :
                   matrix.values[r][j] # matrix.values[s][j]
        /\ \A r \in 1..Len(matrix.rows) :
               /\ Len(matrix.values[r]) = Len(matrix.columns)
               /\ \A j \in 1..Len(matrix.columns) :
                      /\ matrix.values[r][j].den > 0
                      /\ matrix.values[r][j].sign \in {-1, 0, 1}

\* A record is dropped for a missing value and the column it would have
\* varied becomes constant over the remaining rows
C13_Witness ==
    /\ NumericMode
    /\ Len(matrix.rows) < Len(dataset)
    /\ \E c \in {"c1", "c2"} : VaryingNumeric(c) /\ c \notin MatrixColumns
    /\ MatrixColumns # {}

Projected == projection # NotRun

\* C14: for every FeatureMatrix with at most 2 columns the Projection is a
\* pass-through copy, one coordinate per matrix row in the same row order,
\* each equal to that row's input values unchanged; the reduction to 2 axes
\* happens exactly when the feature count exceeds 2.
C14_PassThroughUpToTwoColumns ==
    Projected =>
        /\ Len(matrix.columns) <= 2 =>
            /\ projection.kind = "pass_through"
            /\ Len(projection.coordinates) = Len(matrix.rows)
            /\ \A r \in 1..Len(matrix.rows) :
                   /\ Len(projection.coordinates[r]) = Len(matrix.columns)
                   /\ \A j \in 1..Len(matrix.columns) :
                          projection.coordinates[r][j] = matrix.values[r][j]
        /\ Len(matrix.columns) > 2 =>
            /\ projection.kind = "pca"
            /\ projection.n_axes = 2
            /\ projection.n_points = Len(matrix.rows)

C14_Witness ==
    /\ Projected
    /\ Len(matrix.columns) = 2
    /\ Len(matrix.rows) >= 2
    /\ projection.kind = "pass_through"
    /\ projection.coordinates[1] # projection.coordinates[2]

PreprocessingFails ==
    \A c \in {"c1", "c2"} : ~VaryingNumeric(c) /\ ~UsableCategorical(c)

SelectionFails ==
    /\ matrix # NotRun
    /\ override # NoOverride
    /\ ~OverridePassesValidation

OnlyTheError ==
    /\ error # "none"
    /\ result = [status |-> "error", error |-> error]

NoLaterStageRan ==
    /\ labels = <<>>
    /\ metrics = NotRun
    /\ projection = NotRun

\* C15: when preprocessing or algorithm selection/validation fails the run
\* stops at that stage: the run is failed, no later stage (selection after a
\* failed preprocessing, execution, metrics, projection) has run or ever
\* runs, and the caller holds only the error, not a result tuple with some
\* fields filled.
C15_FailedStageStopsTheRun ==
    /\ (pc # "start" /\ PreprocessingFails) =>
        /\ pc = "failed"
        /\ error = "InsufficientFeatures"
        /\ matrix = NotRun
        /\ choice = NotRun
        /\ NoLaterStageRan
        /\ OnlyTheError
    /\ (pc \notin {"start", "preprocessed"} /\ SelectionFails) =>
        /\ pc = "failed"
        /\ choice = NotRun
        /\ NoLaterStageRan
        /\ OnlyTheError

C15_Witness ==
    /\ pc = "failed"
    /\ PreprocessingFails
    /\ Len(dataset) >= 2
    /\ override # NoOverride
    /\ OnlyTheError

LabelsComplete ==
    /\ matrix # NotRun
    /\ choice # NotRun
    /\ Len(labels) >= 1
    /\ Len(labels) = Len(matrix.rows)

\* C16: within one run the stages occur in the order preprocess, select
\* algorithm, execute clustering, (metrics, projection), return: every step
\* that sets the AlgorithmChoice starts from a completed FeatureMatrix, every
\* step that produces labels starts from an existing AlgorithmChoice, every
\* step that computes metrics or the projection starts from the complete
\* LabelAssignment, and every step that returns a result tuple starts from
\* computed metrics and projection and hands back exactly those.
C16_StagesInOrder ==
    [][/\ (matrix' # matrix =>
              matrix = NotRun /\ choice = NotRun /\ labels = <<>>)
       /\ (choice' # choice =>
              matrix # NotRun /\ matrix' = matrix /\ labels = <<>>)
       /\ (labels' # labels =>
              /\ matrix # NotRun /\ choice # NotRun /\ choice' = choice
              /\ metrics = NotRun /\ projection = NotRun)
       /\ (metrics' # metrics => LabelsComplete /\ labels' = labels)
       /\ (projection' # projection => LabelsComplete /\ labels' = labels)
       /\ ((result' # result /\ result'.status = "ok") =>
              /\ metrics # NotRun /\ projection # NotRun /\ LabelsComplete
              /\ result' = [status |-> "ok", algorithm_choice |-> choice,
                            labels |-> labels, metrics |-> metrics,
                            projection |-> projection])]_vars

C16_Witness ==
    /\ pc = "done"
    /\ result.status = "ok"
    /\ result.metrics = metrics
    /\ result.projection = projection
    /\ LabelsComplete
    /\ metrics # NotRun
    /\ projection # NotRun

----------------------------------------------------------------------------
(* Properties of the Cluster Analysis & Narrative Generator (AnaSpec) *)

Analyzed == analysis # NotRun

AllNoise == Len(labels) >= 1 /\ \A i \in 1..Len(labels) : labels[i] = -1

DegenerateInput ==
    \/ labels = <<>>
    \/ AllNoise
    \/ metrics = [entries |-> {}]

\* C17: analyze_clusters never raises: for every LabelAssignment and
\* MetricSet the call can be made and returns a structured output with
\* cluster summaries and an executive summary; when the LabelAssignment is
\* empty or all noise, or the MetricSet signals a degenerate single-cluster
\* result, the executive summary states that clustering was inconclusive
\* and has no headline insights.
C17_DegenerateAnalysisIsInconclusive ==
    /\ (pc = "done" /\ ~Analyzed) => ENABLED Analyze
    /\ Analyzed =>
        /\ analysis.status = "ok"
        /\ {"cluster_insights", "executive_summary"} \subseteq DOMAIN analysis
        /\ DegenerateInput =>
            /\ analysis.executive_summary.status = "inconclusive"
            /\ analysis.executive_summary.insights = <<>>

C17_Witness ==
    /\ Analyzed
    /\ Len(labels) >= 2
    /\ Cardinality(DistinctNonNoise(labels)) = 1
    /\ HasNoise(labels)
    /\ analysis.executive_summary.status = "inconclusive"

SummariesOf(k) ==
    {j \in 1..Len(analysis.cluster_insights) :
        analysis.cluster_insights[j].cluster_id = k}

SummarySizes ==
    [j \in 1..Len(analysis.cluster_insights) |->
        analysis.cluster_insights[j].size]

NoiseSize ==
    IF "noise_explanation" \in DOMAIN analysis
    THEN analysis.noise_explanation.size ELSE 0

\* C18: every analyze_clusters output has exactly one ClusterSummary per
\* distinct non-noise label and none for label -1, has a NoiseExplanation
\* if and only if at least one label is -1, and the sizes of all
\* ClusterSummaries plus the noise size add up to the number of labels.
C18_OneSummaryPerCluster ==
    Analyzed =>
        /\ \A k \in DistinctNonNoise(labels) : Cardinality(SummariesOf(k)) = 1
        /\ \A j \in 1..Len(analysis.cluster_insights) :
               /\ analysis.cluster_insights[j].cluster_id # -1
               /\ analysis.cluster_insights[j].cluster_id
                      \in DistinctNonNoise(labels)
        /\ ("noise_explanation" \in DOMAIN analysis) <=> HasNoise(labels)
        /\ SumSeq(SummarySizes) + NoiseSize = Len(labels)

C18_Witness ==
    /\ Analyzed
    /\ Cardinality(DistinctNonNoise(labels)) >= 2
    /\ HasNoise(labels)
    /\ Len(analysis.cluster_insights) = 2
    /\ analysis.noise_explanation.size = 1

LabelCount(k) == Cardinality({i \in 1..Len(labels) : labels[i] = k})

IsLargest(k) ==
    /\ k \in DistinctNonNoise(labels)
    /\ \A x \in DistinctNonNoise(labels) : LabelCount(x) <= LabelCount(k)

HeadlineClusters ==
    {analysis.executive_summary.insights[p].cluster_id :
        p \in 1..Len(analysis.executive_summary.insights)}

----------------------------------------------------------------------------
(* Properties of a run followed by its analysis (ViewSpec) *)

\* The label computed for the record at position i of the dataset
ComputedFor(i, k) ==
    \E r \in 1..Len(matrix.rows) : matrix.rows[r] = i /\ labels[r] = k

\* C20: analyze_clusters groups each record under the label that was
\* computed for that same record: label i is paired with the i-th retained
\* (post-drop) record, so every record a ClusterSummary holds is a retained
\* record whose own label is that cluster, and every retained record is held
\* by the summary of its label, also when preprocessing dropped rows.
C20_RecordsGroupedUnderTheirOwnLabel ==
    (analysis # NotRun) =>
        \A j \in 1..Len(analysis.cluster_insights) :
            LET c == analysis.cluster_insights[j] IN
            /\ \A i \in DOMAIN c.records :
                   /\ c.records[i] = dataset[i]
                   /\ ComputedFor(i, c.cluster_id)
            /\ \A i \in 1..Len(dataset) :
                   ComputedFor(i, c.cluster_id) => i \in DOMAIN c.records

----------------------------------------------------------------------------
(* Properties of concurrent runs (ConcSpec) *)

\* The states a run executed alone reaches from s within k stages
RECURSIVE SoloStates(_, _)
SoloStates(S, k) ==
    IF k = 0 THEN S
    ELSE SoloStates(S \cup UNION {StageOutcomes(s) : s \in S}, k - 1)

AloneFrom(run) == SoloStates({NewRun(run.dataset, run.override)}, 6)

----------------------------------------------------------------------------
(* Properties of the cluster detail drawer (DrawerSpec) *)

\* C23: cluster details are loaded lazily: no details request is issued
\* while the drawer is closed (every request was issued by an open drawer
\* and closing issues none), and an open drawer requests the noise endpoint
\* if and only if clusterId is -1, otherwise the per-cluster endpoint for
\* exactly the displayed resultId and clusterId.
C23_DetailsLoadedLazily ==
    /\ [](\A q \in detailRequests :
            /\ q.props.isOpen
            /\ q.request.resultId = q.props.resultId
            /\ (q.request.endpoint = "getNoisePoints") <=> (q.props.clusterId = -1)
            /\ (q.props.clusterId # -1) =>
                   /\ q.request.endpoint = "getClusterDetails"
                   /\ q.request.clusterId = q.props.clusterId)
    /\ [](selectedCluster # Null =>
            \E q \in detailRequests :
                /\ q.props.resultId = selectedCluster.resultId
                /\ q.props.clusterId = selectedCluster.clusterId)
    /\ [][selectedCluster' = Null => detailRequests' = detailRequests]_vars

C23_Witness ==
    /\ selectedCluster = Null
    /\ \E q \in detailRequests :
          q.request = [endpoint |-> "getNoisePoints", resultId |-> "r1"]
    /\ \E q \in detailRequests :
          q.request = [endpoint |-> "getClusterDetails", resultId |-> "r2",
                       clusterId |-> 0]

----------------------------------------------------------------------------
(* Properties of the result summary (SummarySpec) *)

\* C25: the number of unique clusters shown in the result summary equals
\* the number of distinct non-noise labels in cluster_labels, and the
\* displayed noise count equals the number of labels equal to -1.
C25_SummaryCountsNonNoiseClusters ==
    summary # NotRun =>
        /\ summary.unique_clusters =
               Cardinality(cluster_labels(result_cluster_labels))
        /\ \A j \in DOMAIN summary.noise_points :
               summary.noise_points[j] =
                   Cardinality({i \in DOMAIN result_cluster_labels :
                                   result_cluster_labels[i] = NOISE})

----------------------------------------------------------------------------
(* Properties of the device manager (DevSpec) *)

\* C26: a request sent by 'Delete Files & Device' carries
\* save_data_files = false and a request sent by 'Save Files & Delete
\* Device' carries save_data_files = true: the flag always matches the
\* button that was clicked.
C26_SaveFlagMatchesButton ==
    \A q \in deleteRequests :
        q.request.save_data_files = (q.button = SAVE_BUTTON)

\* C27: once the deletion of a device has succeeded, the selected device
\* is not that device.
C27_DeletedDeviceIsNotSelected ==
    \A d \in DeviceIds \ devices : selectedDevice # d

----------------------------------------------------------------------------
(* Properties of DataIngestion (IngestSpec) *)

\* C28: a clustering request is issued only for a file shown as COMPLETED
\* and only while no other clustering request of the component is pending
\* (at most one in flight); the request carries only data_file_id; the
\* results panel switches to file f only when the clustering request for f
\* succeeds, and stays unchanged when a request fails.
C28_ClusteringRequestsAreGuarded ==
    /\ [](\A q \in clusteringRequests :
            /\ q.processing_status = "COMPLETED"
            /\ DOMAIN q.request = {"data_file_id"})
    /\ [](Len(clusteringInFlight) <= 1)
    /\ [][Len(clusteringInFlight') > Len(clusteringInFlight)
            => clusteringInFlight = <<>>]_vars
    /\ [][selectedFileId' # selectedFileId =>
            /\ clusteringInFlight # <<>>
            /\ clusteringInFlight' = <<>>
            /\ clusteringMutation'.status = "success"
            /\ selectedFileId' = Head(clusteringInFlight).data_file_id]_vars
    /\ [][(clusteringMutation.status = "pending"
            /\ clusteringMutation'.status = "error")
            => selectedFileId' = selectedFileId]_vars

C28_Witness ==
    /\ selectedFileId = "f1"
    /\ clusteringMutation.status = "error"
    /\ clusteringMutation.variables.data_file_id = "f2"
    /\ files["f2"] = "COMPLETED"

----------------------------------------------------------------------------
(* Properties of ClusteringResults (ResultsSpec) *)

\* C29: in the executive view the cluster analysis requested and shown
\* belongs to the clustering result being displayed: the result id used
\* for the analysis query equals the id of the displayed result.
C29_AnalysisBelongsToDisplayedResult ==
    (/\ viewMode = "executive"
     /\ currentResult(selectedResultId, results, resultsLoading) # "none")
        => analysisResultId(selectedResultId, results) =
               currentResult(selectedResultId, results, resultsLoading)

----------------------------------------------------------------------------
(* Properties of the notebook launcher (NotebookSpec) *)

\* C30: the notebook session shown by NotebookLauncher belongs to the
\* currently selected file: the data of createMutation and of the session
\* query are those of the notebook of the selected file (otherwise the
\* notebook of another file is shown and no create button is rendered).
C30_NotebookBelongsToSelectedFile ==
    advSelectedFileId # "null" =>
        /\ ~NoNotebookData(createMutation) =>
               createMutation.data = createNotebook(advSelectedFileId)
        /\ session # Null =>
               session.session_id = createNotebook(advSelectedFileId).session_id

====
